---- MODULE Spec2Model ----
(***************************************************************************)
(* The handshake protocol of beelay-core, src/messages/stream.rs: the wire *)
(* Message with its encode/decode codec, the Connecting/Connected state    *)
(* machine, and the Envelope bridge of Connected.                          *)
(*                                                                         *)
(* Three specifications share the variables:                               *)
(*   Spec     one handshake object driven through its public API with      *)
(*            arbitrary inputs (the unit-level contracts);                 *)
(*   NetSpec  a connect party and an accept party running the driver loop  *)
(*            of the module documentation over reliable FIFO channels      *)
(*            (FairNetSpec adds the fairness of delivery);                 *)
(*   NetSpecCC the same driver loop with both parties calling connect.     *)
(***************************************************************************)
EXTENDS Integers, Sequences, FiniteSets, TLC

\* ------------------------------------------------------------------ bounds
\* Longest short identity, in bytes.
MaxIdLen == 1
\* Length of the one long identity (its ULEB128 length takes two bytes).
LongIdLen == 130
\* Longest payload, in bytes.
MaxPayloadLen == 1
\* Data messages each party of the network may send.
MaxData == 1
\* Longest arbitrary byte string handed to decode.
MaxWireLen == 2

\* --------------------------------------------------------------- sequences
RECURSIVE SeqsUpTo(_, _)
SeqsUpTo(S, n) ==
    IF n = 0 THEN {<<>>}
    ELSE LET shorter == SeqsUpTo(S, n - 1)
         IN  shorter \cup {Append(s, x) : s \in {t \in shorter : Len(t) = n - 1}, x \in S}

Drop(s, n) == SubSeq(s, n + 1, Len(s))
Take(s, n) == SubSeq(s, 1, n)

\* ------------------------------------------------------------------- UTF-8
\* A Rust String is a byte vector that is valid UTF-8; PeerId wraps one.
\* std::str::from_utf8 accepts exactly the well-formed sequences of
\* Unicode table 3-7.
IsCont(b) == b >= 128 /\ b <= 191

Utf8Width(b) ==
    IF b < 128 THEN 1
    ELSE IF b >= 194 /\ b <= 223 THEN 2
    ELSE IF b >= 224 /\ b <= 239 THEN 3
    ELSE IF b >= 240 /\ b <= 244 THEN 4
    ELSE 0

Utf8SecondOk(b1, b2) ==
    CASE b1 = 224 -> b2 >= 160 /\ b2 <= 191
      [] b1 = 237 -> b2 >= 128 /\ b2 <= 159
      [] b1 = 240 -> b2 >= 144 /\ b2 <= 191
      [] b1 = 244 -> b2 >= 128 /\ b2 <= 143
      [] OTHER    -> IsCont(b2)

\* The validation loop, stated per position: every byte that is not a
\* continuation byte leads a complete well-formed scalar, and every
\* continuation byte belongs to the scalar of the nearest lead before it.
from_utf8_ok(input) ==
    \A bytes \in {input} :
        LET n == Len(bytes)
            Lead(j) == CHOOSE i \in 0..j : /\ i = 0 \/ ~IsCont(bytes[i])
                                           /\ \A k \in (i + 1)..j : IsCont(bytes[k])
        IN  \A i \in 1..n :
                IF IsCont(bytes[i])
                THEN Lead(i) > 0 /\ i - Lead(i) < Utf8Width(bytes[Lead(i)])
                ELSE LET w == Utf8Width(bytes[i])
                     IN  /\ w > 0
                         /\ i + w - 1 <= n
                         /\ (w >= 2 => Utf8SecondOk(bytes[i], bytes[i + 1]))
                         /\ \A k \in (i + 2)..(i + w - 1) : IsCont(bytes[k])

\* ------------------------------------------------------------ input domains
\* Identities: runs of 'a' up to MaxIdLen (the empty one included), the
\* two-byte scalar U+00E9, and one identity of LongIdLen bytes.
EAcute == <<195, 169>>
LongId == [i \in 1..LongIdLen |-> 97]
PeerIds == SeqsUpTo({97}, MaxIdLen) \cup {EAcute, LongId}

PayloadBytes == {200}
Payloads == SeqsUpTo(PayloadBytes, MaxPayloadLen)

\* Arbitrary input of decode: the tags of the two Hello variants, which
\* also serve as lengths, and 'a', which is no tag.
WireBytes == {0, 1, 97}
Wires == SeqsUpTo(WireBytes, MaxWireLen)

\* ---------------------------------------------------------------- messages
HelloDearServer(peer_id) == [type |-> "HelloDearServer", peer_id |-> peer_id]
WhyHelloDearClient(peer_id) == [type |-> "WhyHelloDearClient", peer_id |-> peer_id]
Data(payload) == [type |-> "Data", payload |-> payload]

Messages ==
    {HelloDearServer(p) : p \in PeerIds} \cup {WhyHelloDearClient(p) : p \in PeerIds}
        \cup {Data(p) : p \in Payloads}

Envelope(sender, recipient, payload) ==
    [sender |-> sender, recipient |-> recipient, payload |-> payload]
Envelopes == {Envelope(s, r, p) : s \in PeerIds, r \in PeerIds, p \in Payloads}

None == [some |-> FALSE]
Some(m) == [some |-> TRUE, val |-> m]

\* ------------------------------------------------------------------ parsing
\* parse::Input is the unread rest of the slice.  A parser returns
\* Parsed(rest, value) or Failed(error).
Parsed(rest, val) == [ok |-> TRUE, rest |-> rest, val |-> val]
Failed(err) == [ok |-> FALSE, err |-> err]

parse_u8(input) ==
    IF input = <<>> THEN Failed("NotEnoughInput")
    ELSE Parsed(Drop(input, 1), input[1])

\* Unsigned LEB128: 7 data bits per byte, low group first, high bit set on
\* all but the final byte.
RECURSIVE encode_uleb128(_)
encode_uleb128(val) ==
    IF val < 128 THEN <<val>>
    ELSE <<128 + (val % 128)>> \o encode_uleb128(val \div 128)

RECURSIVE parse_uleb128(_)
parse_uleb128(input) ==
    LET b == parse_u8(input)
    IN  IF ~b.ok THEN b
        ELSE IF b.val < 128 THEN b
        ELSE LET more == parse_uleb128(b.rest)
             IN  IF ~more.ok THEN more
                 ELSE Parsed(more.rest, (b.val - 128) + 128 * more.val)

\* A length-prefixed run of bytes.
parse_slice(input) ==
    LET len == parse_uleb128(input)
    IN  IF ~len.ok THEN len
        ELSE IF Len(len.rest) < len.val THEN Failed("NotEnoughInput")
        ELSE Parsed(Drop(len.rest, len.val), Take(len.rest, len.val))

\* parse::str: a length-prefixed run of bytes that must be valid UTF-8.
parse_str(input) ==
    LET s == parse_slice(input)
    IN  IF ~s.ok THEN s
        ELSE IF ~from_utf8_ok(s.val) THEN Failed("Other")
        ELSE s

\* The payload codec of the application layer: the payload's bytes behind
\* their ULEB128 length.
Payload_encode(payload) == encode_uleb128(Len(payload)) \o payload
parse_payload(input) == parse_slice(input)

\* conversion that reports every parse error as invalid input.
DecodeError_from_AllInvalid(err) == "Invalid"

\* impl From<parse::ParseError> for DecodeError
DecodeError_from(err) ==
    IF err = "NotEnoughInput" THEN "NotEnoughInput" ELSE "Invalid"

Ok(val) == [ok |-> TRUE, val |-> val]
Err(err) == [ok |-> FALSE, err |-> err]

\* -------------------------------------------------------------------- codec
\* encode that writes the tag of a Hello in front of a payload.
Message_encode_DataTag1(msg) ==
    LET msg_type == CASE msg.type = "HelloDearServer" -> 0
                      [] msg.type = "WhyHelloDearClient" -> 1
                      [] msg.type = "Data" -> 1
        bytes == <<msg_type>>
    IN  CASE msg.type = "HelloDearServer" ->
                bytes \o encode_uleb128(Len(msg.peer_id)) \o msg.peer_id
          [] msg.type = "WhyHelloDearClient" ->
                bytes \o encode_uleb128(Len(msg.peer_id)) \o msg.peer_id
          [] msg.type = "Data" -> bytes \o Payload_encode(msg.payload)

Message_encode(msg) ==
    LET msg_type == CASE msg.type = "HelloDearServer" -> 0
                      [] msg.type = "WhyHelloDearClient" -> 1
                      [] msg.type = "Data" -> 2
        bytes == <<msg_type>>
    IN  CASE msg.type = "HelloDearServer" ->
                bytes \o encode_uleb128(Len(msg.peer_id)) \o msg.peer_id
          [] msg.type = "WhyHelloDearClient" ->
                bytes \o encode_uleb128(Len(msg.peer_id)) \o msg.peer_id
          [] msg.type = "Data" -> bytes \o Payload_encode(msg.payload)

\* decode with the branch of tag 1 copied from tag 0 unchanged.
Message_decode_CopyPaste(data) ==
    LET t == parse_u8(data)
    IN  IF ~t.ok THEN Err(DecodeError_from(t.err))
        ELSE CASE t.val = 0 ->
                    LET s == parse_str(t.rest)
                    IN  IF ~s.ok THEN Err(DecodeError_from(s.err))
                        ELSE Ok(HelloDearServer(s.val))
               [] t.val = 1 ->
                    LET s == parse_str(t.rest)
                    IN  IF ~s.ok THEN Err(DecodeError_from(s.err))
                        ELSE Ok(HelloDearServer(s.val))
               [] t.val = 2 ->
                    LET p == parse_payload(t.rest)
                    IN  IF ~p.ok THEN Err(DecodeError_from(p.err))
                        ELSE Ok(Data(p.val))
               [] OTHER -> Err("Invalid")

\* decode that takes an unknown tag for a Data message.
Message_decode_LaxTag(data) ==
    LET t == parse_u8(data)
    IN  IF ~t.ok THEN Err(DecodeError_from(t.err))
        ELSE CASE t.val = 0 ->
                    LET s == parse_str(t.rest)
                    IN  IF ~s.ok THEN Err(DecodeError_from(s.err))
                        ELSE Ok(HelloDearServer(s.val))
               [] t.val = 1 ->
                    LET s == parse_str(t.rest)
                    IN  IF ~s.ok THEN Err(DecodeError_from(s.err))
                        ELSE Ok(WhyHelloDearClient(s.val))
               [] OTHER ->
                    LET p == parse_payload(t.rest)
                    IN  IF ~p.ok THEN Err(DecodeError_from(p.err))
                        ELSE Ok(Data(p.val))

\* decode that rejects a Hello with input left over.
Message_decode_Strict(data) ==
    LET t == parse_u8(data)
    IN  IF ~t.ok THEN Err(DecodeError_from(t.err))
        ELSE CASE t.val = 0 ->
                    LET s == parse_str(t.rest)
                    IN  IF ~s.ok THEN Err(DecodeError_from(s.err))
                        ELSE IF s.rest # <<>> THEN Err("Invalid")
                        ELSE Ok(HelloDearServer(s.val))
               [] t.val = 1 ->
                    LET s == parse_str(t.rest)
                    IN  IF ~s.ok THEN Err(DecodeError_from(s.err))
                        ELSE IF s.rest # <<>> THEN Err("Invalid")
                        ELSE Ok(WhyHelloDearClient(s.val))
               [] t.val = 2 ->
                    LET p == parse_payload(t.rest)
                    IN  IF ~p.ok THEN Err(DecodeError_from(p.err))
                        ELSE Ok(Data(p.val))
               [] OTHER -> Err("Invalid")

\* decode that maps a failed identity string to invalid input by hand.
Message_decode_EagerInvalid(data) ==
    LET t == parse_u8(data)
    IN  IF ~t.ok THEN Err(DecodeError_from(t.err))
        ELSE CASE t.val = 0 ->
                    LET s == parse_str(t.rest)
                    IN  IF ~s.ok THEN Err("Invalid")
                        ELSE Ok(HelloDearServer(s.val))
               [] t.val = 1 ->
                    LET s == parse_str(t.rest)
                    IN  IF ~s.ok THEN Err("Invalid")
                        ELSE Ok(WhyHelloDearClient(s.val))
               [] t.val = 2 ->
                    LET p == parse_payload(t.rest)
                    IN  IF ~p.ok THEN Err(DecodeError_from(p.err))
                        ELSE Ok(Data(p.val))
               [] OTHER -> Err("Invalid")

Message_decode(data) ==
    LET t == parse_u8(data)
    IN  IF ~t.ok THEN Err(DecodeError_from(t.err))
        ELSE CASE t.val = 0 ->
                    LET s == parse_str(t.rest)
                    IN  IF ~s.ok THEN Err(DecodeError_from(s.err))
                        ELSE Ok(HelloDearServer(s.val))
               [] t.val = 1 ->
                    LET s == parse_str(t.rest)
                    IN  IF ~s.ok THEN Err(DecodeError_from(s.err))
                        ELSE Ok(WhyHelloDearClient(s.val))
               [] t.val = 2 ->
                    LET p == parse_payload(t.rest)
                    IN  IF ~p.ok THEN Err(DecodeError_from(p.err))
                        ELSE Ok(Data(p.val))
               [] OTHER -> Err("Invalid")

\* ------------------------------------------------------------ state machine
Connecting(us) == [state |-> "Connecting", us |-> us]
Connected(our_peer_id, their_peer_id) ==
    [state |-> "Connected", our_peer_id |-> our_peer_id, their_peer_id |-> their_peer_id]

Continue(connecting, msg) == [step |-> "Continue", next |-> connecting, msg |-> msg]
Done(connected, msg) == [step |-> "Done", next |-> connected, msg |-> msg]

Connecting_accept(us) == Continue(Connecting(us), None)

\* connect that forgets the Hello.
Connecting_connect_NoHello(us) == Continue(Connecting(us), None)

\* connect that marks its Connecting as the initiator's.
Connecting_connect_Tagged(us) ==
    Continue([state |-> "Connecting", us |-> us, role |-> "initiator"],
             Some(HelloDearServer(us)))

Connecting_connect(us) == Continue(Connecting(us), Some(HelloDearServer(us)))

\* receive with the two identities of the acceptor's Connected swapped.
Connecting_receive_Swapped(self, msg) ==
    CASE msg.type = "HelloDearServer" ->
            Ok(Done(Connected(msg.peer_id, self.us), Some(WhyHelloDearClient(self.us))))
      [] msg.type = "WhyHelloDearClient" ->
            Ok(Done(Connected(self.us, msg.peer_id), None))
      [] OTHER -> Err("UnexpectedMessage")

\* receive that takes a Data message for the end of the handshake.
Connecting_receive_DataOk(self, msg) ==
    CASE msg.type = "HelloDearServer" ->
            Ok(Done(Connected(self.us, msg.peer_id), Some(WhyHelloDearClient(self.us))))
      [] msg.type = "WhyHelloDearClient" ->
            Ok(Done(Connected(self.us, msg.peer_id), None))
      [] OTHER -> Ok(Done(Connected(self.us, <<>>), None))

\* receive that answers the acceptor's Hello with a Hello of its own.
Connecting_receive_Chatty(self, msg) ==
    CASE msg.type = "HelloDearServer" ->
            Ok(Done(Connected(self.us, msg.peer_id), Some(WhyHelloDearClient(self.us))))
      [] msg.type = "WhyHelloDearClient" ->
            Ok(Done(Connected(self.us, msg.peer_id), Some(WhyHelloDearClient(self.us))))
      [] OTHER -> Err("UnexpectedMessage")

\* receive that takes its own identity for the acceptor's.
Connecting_receive_SelfPeer(self, msg) ==
    CASE msg.type = "HelloDearServer" ->
            Ok(Done(Connected(self.us, msg.peer_id), Some(WhyHelloDearClient(self.us))))
      [] msg.type = "WhyHelloDearClient" ->
            Ok(Done(Connected(self.us, self.us), None))
      [] OTHER -> Err("UnexpectedMessage")

\* receive that never finishes on the acceptor's Hello.
Connecting_receive_NoWhyHello(self, msg) ==
    CASE msg.type = "HelloDearServer" ->
            Ok(Done(Connected(self.us, msg.peer_id), Some(WhyHelloDearClient(self.us))))
      [] OTHER -> Err("UnexpectedMessage")

Connecting_receive(self, msg) ==
    CASE msg.type = "HelloDearServer" ->
            Ok(Done(Connected(self.us, msg.peer_id), Some(WhyHelloDearClient(self.us))))
      [] msg.type = "WhyHelloDearClient" ->
            Ok(Done(Connected(self.us, msg.peer_id), None))
      [] OTHER -> Err("UnexpectedMessage")

Connected_their_peer_id(self) == self.their_peer_id

\* receive that lets every variant through.
Connected_receive_AnyOk(self, msg) ==
    CASE msg.type = "Data" ->
            Ok(Envelope(self.their_peer_id, self.our_peer_id, msg.payload))
      [] OTHER -> Ok(Envelope(self.their_peer_id, self.our_peer_id, <<>>))

\* receive that passes a late Hello on as an Envelope.
Connected_receive_HelloAsData(self, msg) ==
    CASE msg.type = "Data" ->
            Ok(Envelope(self.their_peer_id, self.our_peer_id, msg.payload))
      [] OTHER -> Ok(Envelope(self.their_peer_id, self.our_peer_id, msg.peer_id))

\* receive that addresses the Envelope the wrong way round.
Connected_receive_Swapped(self, msg) ==
    CASE msg.type = "Data" ->
            Ok(Envelope(self.our_peer_id, self.their_peer_id, msg.payload))
      [] OTHER -> Err("UnexpectedMessage")

Connected_receive(self, msg) ==
    CASE msg.type = "Data" ->
            Ok(Envelope(self.their_peer_id, self.our_peer_id, msg.payload))
      [] OTHER -> Err("UnexpectedMessage")

\* send that only forwards the payload of an Envelope it sent itself.
Connected_send_Checked(self, env) ==
    IF env.sender = self.our_peer_id THEN Data(env.payload) ELSE Data(<<>>)

Connected_send(self, env) == Data(env.payload)

\* -------------------------------------------------------------------- state
VARIABLES
    obj,      \* the handshake object the caller holds
    entry,    \* which entry point built it, and the identity it was given
    born,     \* the Connected value as the handshake constructed it
    call,     \* the last call of the API: operation, receiver, argument, result
    party,    \* network: each party's driver state
    chan,     \* network: chan[i] is the FIFO of encoded messages travelling to i
    log       \* network: every handshake message sent, in order, with its sender

vars == <<obj, entry, born, call, party, chan, log>>
apiVars == <<obj, entry, born, call>>
netVars == <<party, chan, log>>

NoObj == [state |-> "None"]
NoEntry == [via |-> "none", us |-> <<>>]
Entry(via, us) == [via |-> via, us |-> us]
Consumed == [state |-> "Consumed"]

\* Where the input of a call came from: the message that was encoded and,
\* when Connected.send produced that message, the Envelope passed to send.
NoSrc == [msg |-> None, env |-> None]

Call(op, self, arg, res, src) ==
    [op |-> op, self |-> self, arg |-> arg, res |-> res, src |-> src]
NoCall == Call("none", NoObj, <<>>, <<>>, NoSrc)

NoNet == <<>>

Init ==
    /\ obj = NoObj
    /\ entry = NoEntry
    /\ born = None
    /\ call = NoCall
    /\ party = NoNet
    /\ chan = NoNet
    /\ log = NoNet

\* ---------------------------------------------------------- API operations
\* let step = Connecting::accept(us); the caller keeps the step's state.
Accept ==
    /\ obj.state = "None"
    /\ \E us \in PeerIds :
        LET step == Connecting_accept(us)
        IN  /\ obj' = step.next
            /\ call' = Call("accept", NoObj, us, step, NoSrc)
            /\ entry' = Entry("accept", us)
    /\ UNCHANGED <<born, netVars>>

Connect ==
    /\ obj.state = "None"
    /\ \E us \in PeerIds :
        LET step == Connecting_connect(us)
        IN  /\ obj' = step.next
            /\ call' = Call("connect", NoObj, us, step, NoSrc)
            /\ entry' = Entry("connect", us)
    /\ UNCHANGED <<born, netVars>>

\* state.receive(msg): self is consumed; an Ok step yields the next object.
DoConnectingReceive(msg, src) ==
    /\ obj.state = "Connecting"
    /\ LET res == Connecting_receive(obj, msg)
       IN  /\ call' = Call("Connecting.receive", obj, msg, res, src)
           /\ obj' = IF res.ok THEN res.val.next ELSE Consumed
           /\ born' = IF res.ok /\ res.val.step = "Done" THEN Some(res.val.next) ELSE born
    /\ UNCHANGED <<entry, netVars>>

\* receive that rewrites the object's identities from the message handled.
DoConnectedReceive_Rewrite(msg, src) ==
    /\ obj.state = "Connected"
    /\ call' = Call("Connected.receive", obj, msg, Connected_receive(obj, msg), src)
    /\ obj' = IF msg.type = "Data" THEN obj ELSE Connected(obj.our_peer_id, msg.peer_id)
    /\ UNCHANGED <<entry, born, netVars>>

\* receive that starts the handshake over when a Hello arrives.
DoConnectedReceive_Rehandshake(msg, src) ==
    /\ obj.state = "Connected"
    /\ call' = Call("Connected.receive", obj, msg, Connected_receive(obj, msg), src)
    /\ obj' = IF msg.type = "HelloDearServer" THEN Connecting(obj.our_peer_id) ELSE obj
    /\ UNCHANGED <<entry, born, netVars>>

\* connected.receive(msg): &self, the object stays as it is.
DoConnectedReceive(msg, src) ==
    /\ obj.state = "Connected"
    /\ call' = Call("Connected.receive", obj, msg, Connected_receive(obj, msg), src)
    /\ UNCHANGED <<obj, entry, born, netVars>>

\* The last call left a decoded message.
HasDecoded == call.op = "decode" /\ call.res.ok

ConnectingReceive == \E msg \in Messages : DoConnectingReceive(msg, NoSrc)
ConnectingReceiveDecoded == HasDecoded /\ DoConnectingReceive(call.res.val, call.src)

ConnectedReceive == \E msg \in Messages : DoConnectedReceive(msg, NoSrc)
ConnectedReceiveDecoded == HasDecoded /\ DoConnectedReceive(call.res.val, call.src)

ConnectedSend ==
    /\ obj.state = "Connected"
    /\ \E env \in Envelopes :
        call' = Call("send", obj, env, Connected_send(obj, env), NoSrc)
    /\ UNCHANGED <<obj, entry, born, netVars>>

TheirPeerId ==
    /\ obj.state = "Connected"
    /\ call' = Call("their_peer_id", obj, <<>>, Connected_their_peer_id(obj), NoSrc)
    /\ UNCHANGED <<obj, entry, born, netVars>>

\* The message the last call handed to the caller for sending, if any.
Produced ==
    CASE call.op = "send" -> Some(call.res)
      [] call.op \in {"accept", "connect"} -> call.res.msg
      [] call.op = "Connecting.receive" /\ call.res.ok -> call.res.val.msg
      [] OTHER -> None

\* send_message(msg.encode()) for the message the last call produced.
EncodeProduced ==
    /\ Produced.some
    /\ LET msg == Produced.val
           env == IF call.op = "send" THEN Some(call.arg) ELSE None
       IN  call' = Call("encode", obj, msg, Message_encode(msg),
                        [msg |-> Some(msg), env |-> env])
    /\ UNCHANGED <<obj, entry, born, netVars>>

\* msg.encode() for an arbitrary message, as the round-trip test does.
EncodeArbitrary ==
    /\ \E msg \in Messages :
        call' = Call("encode", obj, msg, Message_encode(msg),
                     [msg |-> Some(msg), env |-> None])
    /\ UNCHANGED <<obj, entry, born, netVars>>

\* Message::decode(&encoded) of the bytes the last call encoded.
Decode ==
    /\ call.op = "encode"
    /\ call' = Call("decode", obj, call.res, Message_decode(call.res), call.src)
    /\ UNCHANGED <<obj, entry, born, netVars>>

\* Message::decode(data) for arbitrary bytes off the transport.
DecodeArbitrary ==
    /\ \E data \in Wires :
        call' = Call("decode", obj, data, Message_decode(data), NoSrc)
    /\ UNCHANGED <<obj, entry, born, netVars>>

\* The input of a decode that is an encoded message cut short or followed
\* by more bytes.
Cut(kind, msg) == [msg |-> None, env |-> None, cut |-> kind, of |-> msg]

\* Message::decode of the first k bytes of an encoded message, as a
\* streaming transport delivers them.
DecodePrefix ==
    /\ call.op = "encode"
    /\ \E k \in 0..(Len(call.res) - 1) :
        \E data \in {Take(call.res, k)} :
            call' = Call("decode", obj, data, Message_decode(data), Cut("prefix", call.arg))
    /\ UNCHANGED <<obj, entry, born, netVars>>

\* Message::decode of an encoded message with the next bytes of the stream
\* behind it.
DecodeTrailing ==
    /\ call.op = "encode"
    /\ \E b \in WireBytes :
        \E data \in {Append(call.res, b)} :
            call' = Call("decode", obj, data, Message_decode(data), Cut("trailing", call.arg))
    /\ UNCHANGED <<obj, entry, born, netVars>>

Next ==
    \/ Accept
    \/ Connect
    \/ ConnectingReceive
    \/ ConnectingReceiveDecoded
    \/ ConnectedReceive
    \/ ConnectedReceiveDecoded
    \/ ConnectedSend
    \/ TheirPeerId
    \/ EncodeProduced
    \/ EncodeArbitrary
    \/ Decode
    \/ DecodeArbitrary
    \/ DecodePrefix
    \/ DecodeTrailing

Spec == Init /\ [][Next]_vars

\* ----------------------------------------------------------------- network
\* Two parties run the driver of the module documentation: handshake(step)
\* and then run(connected).  send_message appends the encoded message to the
\* peer's FIFO; receive_message takes the head of the party's own FIFO.
Parties == {1, 2}
Peer(i) == 3 - i

EntryStep(via, us) ==
    IF via = "connect" THEN Connecting_connect(us) ELSE Connecting_accept(us)

\* accept_connection / connect_to_peer up to the call of handshake(step).
Party(via, us) ==
    [via |-> via, us |-> us, pc |-> "step", step |-> EntryStep(via, us),
     obj |-> NoObj, data |-> 0, got |-> None, err |-> "none"]

NetInitWith(via1, via2) ==
    /\ \E a \in PeerIds, b \in PeerIds :
        party = <<Party(via1, a), Party(via2, b)>>
    /\ chan = <<<< >>, << >>>>
    /\ log = << >>
    /\ obj = NoObj
    /\ entry = NoEntry
    /\ born = None
    /\ call = NoCall

NetInit == NetInitWith("connect", "accept")

Sent(i, msg) == [from |-> i, msg |-> msg]

\* The Envelopes the application hands to run: either party's identity as
\* sender and as recipient, an empty or a one-byte payload.
NetPayloads == {<< >>, <<200>>}
NetEnvelopes ==
    {Envelope(party[s].us, party[r].us, p) : s \in Parties, r \in Parties, p \in NetPayloads}

\* One arm of the match in handshake: send the step's message if there is
\* one, then wait for a message (Continue) or break with connected (Done).
HandleStep(i) ==
    /\ party[i].pc = "step"
    /\ LET step == party[i].step
       IN  /\ IF step.msg.some
              THEN /\ chan' = [chan EXCEPT ![Peer(i)] = Append(@, Message_encode(step.msg.val))]
                   /\ log' = Append(log, Sent(i, step.msg.val))
              ELSE UNCHANGED <<chan, log>>
           /\ party' = [party EXCEPT ![i].obj = step.next,
                                     ![i].pc = IF step.step = "Continue" THEN "receive" ELSE "run"]
    /\ UNCHANGED apiVars

\* step = state.receive(Message::decode(&next_msg).unwrap()).unwrap()
HandshakeReceive(i) ==
    /\ party[i].pc = "receive"
    /\ chan[i] # << >>
    /\ chan' = [chan EXCEPT ![i] = Tail(@)]
    /\ \E decoded \in {Message_decode(Head(chan[i]))} :
        IF ~decoded.ok
        THEN party' = [party EXCEPT ![i].pc = "panic", ![i].err = decoded.err]
        ELSE \E res \in {Connecting_receive(party[i].obj, decoded.val)} :
                party' =
                    IF ~res.ok
                    THEN [party EXCEPT ![i].pc = "panic", ![i].err = res.err, ![i].obj = Consumed]
                    ELSE [party EXCEPT ![i].pc = "step", ![i].step = res.val, ![i].obj = Consumed]
    /\ UNCHANGED <<log, apiVars>>

\* run: let envelope = connected.receive(Message::decode(&incoming).unwrap()).unwrap()
RunReceive(i) ==
    /\ party[i].pc = "run"
    /\ chan[i] # << >>
    /\ chan' = [chan EXCEPT ![i] = Tail(@)]
    /\ \E decoded \in {Message_decode(Head(chan[i]))} :
        IF ~decoded.ok
        THEN party' = [party EXCEPT ![i].pc = "panic", ![i].err = decoded.err]
        ELSE \E res \in {Connected_receive(party[i].obj, decoded.val)} :
                party' =
                    IF ~res.ok
                    THEN [party EXCEPT ![i].pc = "panic", ![i].err = res.err]
                    ELSE [party EXCEPT ![i].got = Some(res.val)]
    /\ UNCHANGED <<log, apiVars>>

\* run: send_message(connected.send(envelope).encode())
RunSend(i) ==
    /\ party[i].pc = "run"
    /\ party[i].data < MaxData
    /\ \E env \in NetEnvelopes :
        LET msg == Connected_send(party[i].obj, env)
        IN  chan' = [chan EXCEPT ![Peer(i)] = Append(@, Message_encode(msg))]
    /\ party' = [party EXCEPT ![i].data = @ + 1]
    /\ UNCHANGED <<log, apiVars>>

NetNext ==
    \E i \in Parties :
        \/ HandleStep(i)
        \/ HandshakeReceive(i)
        \/ RunReceive(i)
        \/ RunSend(i)

NetSpec == NetInit /\ [][NetNext]_vars

\* The driver does not stall on its own, and the channel delivers.
NetFairness ==
    \A i \in Parties :
        /\ WF_vars(HandleStep(i))
        /\ WF_vars(HandshakeReceive(i))
        /\ WF_vars(RunReceive(i))

FairNetSpec == NetSpec /\ NetFairness

\* Both parties call connect_to_peer.
NetInitCC == NetInitWith("connect", "connect")

NetSpecCC == NetInitCC /\ [][NetNext]_vars

\* ------------------------------------------------------ unit-level claims
ReceivedByConnecting(via, type) ==
    /\ call.op = "Connecting.receive"
    /\ entry.via = via
    /\ call.self = Connecting(entry.us)
    /\ call.arg.type = type

\* C1: accept(A) returns Continue(Connecting(A), None), and that Connecting
\* fed HelloFromInitiator(B) returns Done(Connected{our = A, their = B},
\* Some(HelloFromAcceptor(A))).
C1_AcceptorFlow ==
    /\ call.op = "accept" =>
        /\ call.res = [step |-> "Continue",
                       next |-> [state |-> "Connecting", us |-> call.arg],
                       msg |-> None]
        /\ obj = [state |-> "Connecting", us |-> call.arg]
    /\ ReceivedByConnecting("accept", "HelloDearServer") =>
        /\ call.res.ok
        /\ call.res.val = [step |-> "Done",
                           next |-> [state |-> "Connected",
                                     our_peer_id |-> entry.us,
                                     their_peer_id |-> call.arg.peer_id],
                           msg |-> Some([type |-> "WhyHelloDearClient", peer_id |-> entry.us])]

C1_Witness ==
    /\ ReceivedByConnecting("accept", "HelloDearServer")
    /\ call.arg.peer_id # entry.us
    /\ obj.state = "Connected"

\* C2: connect(A) returns Continue(Connecting(A), Some(HelloFromInitiator(A))),
\* and that Connecting fed HelloFromAcceptor(B) returns
\* Done(Connected{our = A, their = B}, None).
C2_InitiatorFlow ==
    /\ call.op = "connect" =>
        /\ call.res = [step |-> "Continue",
                       next |-> [state |-> "Connecting", us |-> call.arg],
                       msg |-> Some([type |-> "HelloDearServer", peer_id |-> call.arg])]
        /\ obj = [state |-> "Connecting", us |-> call.arg]
    /\ ReceivedByConnecting("connect", "WhyHelloDearClient") =>
        /\ call.res.ok
        /\ call.res.val = [step |-> "Done",
                           next |-> [state |-> "Connected",
                                     our_peer_id |-> entry.us,
                                     their_peer_id |-> call.arg.peer_id],
                           msg |-> None]

C2_Witness ==
    /\ ReceivedByConnecting("connect", "WhyHelloDearClient")
    /\ call.arg.peer_id # entry.us
    /\ obj.state = "Connected"

\* C4: a Connecting value, from accept or from connect, that receives
\* Data(p) returns the error UnexpectedMessage; no Connected value and no
\* message to send come out of the call.
C4_PrematureData ==
    (call.op = "Connecting.receive" /\ call.arg.type = "Data") =>
        /\ entry.via \in {"accept", "connect"}
        /\ ~call.res.ok
        /\ call.res.err = "UnexpectedMessage"
        /\ obj.state # "Connected"
        /\ born = None
        /\ ~Produced.some

C4_Witness ==
    /\ ReceivedByConnecting("connect", "Data")
    /\ call.arg.payload # <<>>
    /\ ~call.res.ok

\* C5: a Connected value that receives HelloFromInitiator(X) or
\* HelloFromAcceptor(X) returns the error UnexpectedMessage and no Envelope;
\* Connected.receive succeeds only on Data.
C5_PostHandshakeRejection ==
    call.op = "Connected.receive" =>
        /\ call.arg.type \in {"HelloDearServer", "WhyHelloDearClient"} =>
                ~call.res.ok /\ call.res.err = "UnexpectedMessage"
        /\ call.res.ok => call.arg.type = "Data"

C5_Witness ==
    /\ call.op = "Connected.receive"
    /\ call.arg.type = "WhyHelloDearClient"
    /\ ~call.res.ok

\* C6: for Connected{our = A, their = B} and an Envelope e with payload P,
\* the bytes of encode(send(e)) decode to a message, and receive of that
\* message on the same Connected yields Envelope{sender = B, recipient = A,
\* payload = P}.
C6_EnvelopeBridging ==
    /\ (call.op = "decode" /\ call.src.env.some) => call.res.ok
    /\ (call.op = "Connected.receive" /\ call.src.env.some) =>
        /\ call.self = obj
        /\ call.res.ok
        /\ call.res.val = [sender |-> obj.their_peer_id,
                           recipient |-> obj.our_peer_id,
                           payload |-> call.src.env.val.payload]

C6_Witness ==
    /\ call.op = "Connected.receive"
    /\ call.src.env.some
    /\ call.src.env.val.payload # <<>>
    /\ call.src.env.val.sender # obj.their_peer_id
    /\ call.src.env.val.recipient # obj.our_peer_id
    /\ obj.our_peer_id # obj.their_peer_id
    /\ call.res.ok

\* C7: for every Message m of the three variants, the empty identity and
\* the empty payload included, decode(encode(m)) succeeds and equals m.
C7_RoundTrip ==
    (call.op = "decode" /\ call.src.msg.some) =>
        /\ call.res.ok
        /\ call.res.val = call.src.msg.val

C7_Witness ==
    /\ call.op = "decode"
    /\ call.src.msg = Some([type |-> "WhyHelloDearClient", peer_id |-> <<>>])
    /\ call.res.ok

\* C8: send(e) is Data(P) for the payload P of e, whatever the sender and
\* recipient of e and whatever the identities of the Connected value.
C8_SendIgnoresAddressing ==
    call.op = "send" => call.res = [type |-> "Data", payload |-> call.arg.payload]

C8_Witness ==
    /\ call.op = "send"
    /\ call.arg.sender # call.self.our_peer_id
    /\ call.arg.recipient # call.self.their_peer_id
    /\ call.arg.payload # <<>>

\* C9: after any sequence of send and receive calls on a Connected value,
\* failed receives included, our_peer_id and their_peer_id are the ones of
\* its construction: their_peer_id() returns the constructed value and a
\* later receive(Data(p)) yields the original sender and recipient.
C9_IdentitiesFixed ==
    /\ [](obj.state = "Connected" =>
            /\ born = Some(obj)
            /\ call.op = "their_peer_id" => call.res = born.val.their_peer_id
            /\ (call.op = "Connected.receive" /\ call.arg.type = "Data") =>
                    /\ call.res.ok
                    /\ call.res.val.sender = born.val.their_peer_id
                    /\ call.res.val.recipient = born.val.our_peer_id)
    /\ [][obj.state = "Connected" => obj' = obj]_vars

C9_Witness ==
    /\ obj.state = "Connected"
    /\ call.op = "Connected.receive"
    /\ call.arg.type = "HelloDearServer"
    /\ call.arg.peer_id # obj.their_peer_id
    /\ ~call.res.ok

\* C10 as claimed: a Connecting from connect that receives a
\* HelloFromInitiator fails, and a Connecting from accept that receives a
\* HelloFromAcceptor fails.
C10_WrongShapeFails ==
    /\ ReceivedByConnecting("connect", "HelloDearServer") => ~call.res.ok
    /\ ReceivedByConnecting("accept", "WhyHelloDearClient") => ~call.res.ok

\* C10, amended: Connecting.receive does not look at the entry point.  A
\* Connecting from connect(A) that receives HelloFromInitiator(B) returns
\* Done(Connected{our = A, their = B}, Some(HelloFromAcceptor(A))); one from
\* accept(A) that receives HelloFromAcceptor(B) returns
\* Done(Connected{our = A, their = B}, None); only Data fails.
C10_WrongShapeCompletes ==
    /\ ReceivedByConnecting("connect", "HelloDearServer") =>
        /\ call.res.ok
        /\ call.res.val = [step |-> "Done",
                           next |-> [state |-> "Connected",
                                     our_peer_id |-> entry.us,
                                     their_peer_id |-> call.arg.peer_id],
                           msg |-> Some([type |-> "WhyHelloDearClient", peer_id |-> entry.us])]
    /\ ReceivedByConnecting("accept", "WhyHelloDearClient") =>
        /\ call.res.ok
        /\ call.res.val = [step |-> "Done",
                           next |-> [state |-> "Connected",
                                     our_peer_id |-> entry.us,
                                     their_peer_id |-> call.arg.peer_id],
                           msg |-> None]
    /\ call.op = "Connecting.receive" => (call.res.ok <=> call.arg.type # "Data")

C10_Witness ==
    /\ ReceivedByConnecting("accept", "WhyHelloDearClient")
    /\ call.arg.peer_id # entry.us
    /\ obj.state = "Connected"

\* C11: the Connecting of accept(A) and the Connecting of connect(A) are the
\* same value and give the same result on receive(m): the result is a
\* function of the local identity and the received message only.
C11_RoleAgnostic ==
    call.op = "Connecting.receive" =>
        /\ entry.via \in {"accept", "connect"}
        /\ call.self = [state |-> "Connecting", us |-> entry.us]
        /\ call.res =
             CASE call.arg.type = "HelloDearServer" ->
                    [ok |-> TRUE,
                     val |-> [step |-> "Done",
                              next |-> [state |-> "Connected",
                                        our_peer_id |-> entry.us,
                                        their_peer_id |-> call.arg.peer_id],
                              msg |-> Some([type |-> "WhyHelloDearClient",
                                            peer_id |-> entry.us])]]
               [] call.arg.type = "WhyHelloDearClient" ->
                    [ok |-> TRUE,
                     val |-> [step |-> "Done",
                              next |-> [state |-> "Connected",
                                        our_peer_id |-> entry.us,
                                        their_peer_id |-> call.arg.peer_id],
                              msg |-> None]]
               [] call.arg.type = "Data" ->
                    [ok |-> FALSE, err |-> "UnexpectedMessage"]

C11_Witness ==
    /\ ReceivedByConnecting("connect", "HelloDearServer")
    /\ call.arg.peer_id # entry.us
    /\ call.res.ok

\* C12: a Step carries a Connecting (Continue) or a Connected (Done) and
\* nothing else, and once the object is Connected no receive, send or
\* their_peer_id, with any argument, takes it back to Connecting or returns
\* a Connecting value.
C12_Terminal ==
    /\ [](call.op \in {"accept", "connect"} =>
            call.res.step = "Continue" /\ call.res.next.state = "Connecting")
    /\ []((call.op = "Connecting.receive" /\ call.res.ok) =>
            call.res.val.step = "Done" /\ call.res.val.next.state = "Connected")
    /\ []((call.op = "Connected.receive" /\ call.res.ok) =>
            DOMAIN call.res.val = {"sender", "recipient", "payload"})
    /\ [](call.op = "send" => call.res.type = "Data")
    /\ [](call.op = "their_peer_id" =>
            call.res = call.self.their_peer_id /\ from_utf8_ok(call.res))
    /\ [][obj.state = "Connected" => obj'.state = "Connected"]_vars

C12_Witness ==
    /\ obj.state = "Connected"
    /\ call.op = "their_peer_id"
    /\ call.res # obj.our_peer_id

IsCut(kind) ==
    /\ call.op = "decode"
    /\ "cut" \in DOMAIN call.src
    /\ call.src.cut = kind

IsHello(msg) == msg.type \in {"HelloDearServer", "WhyHelloDearClient"}

\* C13: decode of the empty byte sequence returns NotEnoughInput, not
\* Invalid and not a message.
C13_EmptyInput ==
    (call.op = "decode" /\ call.arg = <<>>) =>
        call.res = [ok |-> FALSE, err |-> "NotEnoughInput"]

C13_Witness ==
    /\ call.op = "decode"
    /\ call.arg = <<>>
    /\ ~call.res.ok

\* C14: decode of a non-empty byte sequence whose first byte is not 0, 1 or
\* 2 returns Invalid, whatever bytes follow.
C14_InvalidTag ==
    (call.op = "decode" /\ call.arg # <<>> /\ call.arg[1] \notin {0, 1, 2}) =>
        call.res = [ok |-> FALSE, err |-> "Invalid"]

C14_Witness ==
    /\ call.op = "decode"
    /\ Len(call.arg) = 2
    /\ call.arg[1] = 97
    /\ call.arg[2] = 0
    /\ ~call.res.ok

\* C15 as claimed: whenever decode succeeds on bytes b with message m,
\* m.encode() = b, so no two byte sequences decode to the same message.
C15_Bijection ==
    (call.op = "decode" /\ call.res.ok) => Message_encode(call.res.val) = call.arg

\* C15, amended: decode is a left inverse of encode (the bytes of
\* m.encode() decode to a message that encodes to the same bytes, so encode
\* is injective), but decode does not ask for the input to be used up: the
\* bytes of a Hello message m followed by more bytes decode to m as well.
C15_LeftInverse ==
    /\ (call.op = "decode" /\ call.src.msg.some) =>
            call.res.ok /\ Message_encode(call.res.val) = call.arg
    /\ (IsCut("trailing") /\ IsHello(call.src.of)) =>
            call.res = [ok |-> TRUE, val |-> call.src.of]

C15_Witness ==
    /\ IsCut("trailing")
    /\ call.src.of.type = "HelloDearServer"
    /\ call.src.of.peer_id # <<>>
    /\ call.res.ok
    /\ Message_encode(call.res.val) # call.arg

\* C16: decode of every strict prefix of the encoding of a Hello message
\* (the tag alone, a cut length, cut identity bytes) returns NotEnoughInput.
C16_PartialInput ==
    (IsCut("prefix") /\ IsHello(call.src.of)) =>
        call.res = [ok |-> FALSE, err |-> "NotEnoughInput"]

C16_Witness ==
    /\ IsCut("prefix")
    /\ call.src.of.type = "WhyHelloDearClient"
    /\ call.src.of.peer_id = LongId
    /\ Len(call.arg) = 2
    /\ ~call.res.ok

\* --------------------------------------------------------- network claims
Handshakes == log

\* The party holds a Connected value: its last step was Done.
IsConnected(i) ==
    \/ party[i].pc = "run"
    \/ party[i].pc = "step" /\ party[i].step.step = "Done"

\* The party has not had a message yet.
StillWaiting(i) ==
    \/ party[i].pc = "receive"
    \/ party[i].pc = "step" /\ party[i].step.step = "Continue"

RoundTrip ==
    << [from |-> 1, msg |-> [type |-> "HelloDearServer", peer_id |-> party[1].us]],
       [from |-> 2, msg |-> [type |-> "WhyHelloDearClient", peer_id |-> party[2].us]] >>

\* C3: with party 1 started by connect(A) and party 2 by accept(B) over
\* reliable FIFO channels and fair delivery, both parties eventually are
\* Connected; the handshake messages sent are HelloFromInitiator(A) by the
\* initiator and then HelloFromAcceptor(B) by the acceptor, two in all; the
\* acceptor sends nothing before it has received the Hello, and the
\* initiator sends no handshake message once it is Connected.
C3_OneRoundTrip ==
    /\ <>[](IsConnected(1) /\ IsConnected(2) /\ Handshakes = RoundTrip)
    /\ [](Len(Handshakes) <= 2 /\ Handshakes = Take(RoundTrip, Len(Handshakes)))
    /\ [](StillWaiting(2) =>
            /\ \A k \in 1..Len(log) : log[k].from # 2
            /\ party[2].data = 0
            /\ chan[1] = << >>)
    /\ [][IsConnected(1) => Handshakes' = Handshakes \/ Handshakes' = Append(Handshakes, RoundTrip[2])]_vars

C3_Witness ==
    /\ party # NoNet
    /\ party[1].pc = "run"
    /\ party[2].pc = "run"
    /\ party[1].us # party[2].us
    /\ Handshakes = RoundTrip
    /\ chan = <<<< >>, << >>>>

\* The Connected value the party holds once its last step was Done.
ConnectedOf(i) ==
    IF party[i].pc = "step" THEN party[i].step.next ELSE party[i].obj

Mirrored(i) ==
    [state |-> "Connected",
     our_peer_id |-> party[i].us,
     their_peer_id |-> party[Peer(i)].us]

\* C17: with party 1 started by connect(A) and party 2 by accept(B), a
\* party that is Connected holds its own identity as our_peer_id and the
\* other party's as their_peer_id, and every Envelope it makes of a
\* received Data has the other party as sender and itself as recipient.
C17_IdentityAgreement ==
    \A i \in Parties :
        /\ IsConnected(i) => ConnectedOf(i) = Mirrored(i)
        /\ party[i].got.some =>
            /\ party[i].got.val.sender = party[Peer(i)].us
            /\ party[i].got.val.recipient = party[i].us

C17_Witness ==
    /\ party # NoNet
    /\ party[1].us # party[2].us
    /\ party[1].got.some
    /\ party[2].got.some
    /\ party[1].got.val.payload # << >>

\* C18: with one connect party and one accept party following the
\* documented driver over FIFO channels, no receive of Connecting or of
\* Connected returns UnexpectedMessage, in any interleaving, the acceptor
\* sending Data right behind its HelloFromAcceptor included.
C18_NoProtocolViolation ==
    \A i \in Parties :
        /\ party[i].err # "UnexpectedMessage"
        /\ party[i].pc # "panic"

C18_Witness ==
    /\ party # NoNet
    /\ party[1].pc = "run"
    /\ party[1].got.some
    /\ party[2].data > 0
    /\ party[2].got = None
    /\ chan[1] = << >>

\* C19: when both parties start with connect, each receives the other's
\* HelloFromInitiator, is Connected with the mirrored identities and sends
\* a HelloFromAcceptor; the first message a Connected party then receives
\* is that HelloFromAcceptor, and Connected.receive returns
\* UnexpectedMessage for it, whether or not any Data was sent.
C19_SimultaneousConnect ==
    \A i \in Parties :
        /\ IsConnected(i) => ConnectedOf(i) = Mirrored(i)
        /\ (party[i].pc = "step" /\ party[i].step.step = "Done") =>
                party[i].step.msg =
                    Some([type |-> "WhyHelloDearClient", peer_id |-> party[i].us])
        /\ party[i].pc \in {"run", "panic"} =>
                \E k \in 1..Len(log) :
                    log[k] = [from |-> i,
                              msg |-> [type |-> "WhyHelloDearClient", peer_id |-> party[i].us]]
        /\ party[i].pc = "panic" =>
                /\ party[i].err = "UnexpectedMessage"
                /\ party[i].obj = Mirrored(i)
        /\ party[i].got = None

C19_Witness ==
    /\ party # NoNet
    /\ party[1].us # party[2].us
    /\ party[1].pc = "panic"
    /\ party[1].err = "UnexpectedMessage"
    /\ party[1].obj.state = "Connected"
    /\ party[1].data = 0
    /\ party[2].data = 0

====
